---- MODULE Spec2Model ----
(***************************************************************************)
(* Model of chromedriver-utils' download.py: the version probe            *)
(* (get_chrome_version), the catalog resolver                              *)
(* (get_chromedriver_download_url, ranking by difflib's                    *)
(* SequenceMatcher.ratio), the artifact fetcher (download_chromedriver),   *)
(* the permission fixer (amend_permission) and the pipeline (download).    *)
(*                                                                         *)
(* Strings are sequences of one-character strings.  A similarity ratio is  *)
(* the pair <<2*M, T>> standing for the quotient 2.0*M/T; ratios are       *)
(* compared by cross-multiplication.                                       *)
(***************************************************************************)
EXTENDS Integers, Sequences, FiniteSets, TLC

VARIABLES
    manifest,   \* the parsed Info.plist: [container, entries]
    response,   \* what the catalog endpoint answers: [status, body, versions]
    served,     \* per invocation, what the archive URL answers: [status, members]
    fs,         \* the filesystem: path -> node
    fs0,        \* the filesystem before the first step
    entry,      \* per invocation, the function that was called
    pc,         \* per invocation, the statement it is at
    dest_dir,   \* per invocation, the dest_dir argument
    version,    \* per invocation, the local `version` / the our_version argument
    most_similar, \* per invocation, the resolver's most_similar__index
    url,        \* per invocation, the local `url` / the url argument
    filepath,   \* per invocation, the returned chromedriver_dest_path
    err,        \* per invocation, the exception that propagated out
    log,        \* per invocation, the calls download() has completed, with outcome
    sa, sb,     \* the two strings handed to SequenceMatcher
    r_ab, r_ba  \* SequenceMatcher(None, sa, sb).ratio() and the swapped call

vars == <<manifest, response, served, fs, fs0, entry, pc, dest_dir, version,
          most_similar, url, filepath, err, log, sa, sb, r_ab, r_ba>>

(***************************************************************************)
(* Bounds                                                                  *)
(***************************************************************************)
MaxLen == 3        \* longest string handed to SequenceMatcher on its own
MaxEntries == 3    \* most children of the manifest's <dict>
MaxCat == 3        \* most entries of the catalog's "versions" array

Alphabet == {"1", "2", "."}

Max(S) == CHOOSE x \in S : \A y \in S : y <= x
Min(S) == CHOOSE x \in S : \A y \in S : x <= y

SeqsUpTo(S, n) == UNION {[1..k -> S] : k \in 0..n}

\* F applied to the value of v, v being evaluated once
Let(v, F(_)) == CHOOSE r \in {F(x) : x \in {v}} : TRUE

Strings == SeqsUpTo(Alphabet, MaxLen)

(***************************************************************************)
(* Exceptions and results                                                  *)
(***************************************************************************)
NoErr == "none"
NoVal == <<>>
Return(v) == [err |-> NoErr, val |-> v]
Raise(e) == [err |-> e, val |-> NoVal]

(***************************************************************************)
(* difflib.SequenceMatcher(None, a, b).ratio()                             *)
(* Indices are 0-based and ranges half-open, as in difflib.  No character  *)
(* is junk (isjunk is None) and the autojunk heuristic needs len(b) >= 200.*)
(***************************************************************************)
RECURSIVE RunLen(_, _, _, _, _, _)
RunLen(a, b, i, j, ahi, bhi) ==
    IF i < ahi /\ j < bhi /\ a[i + 1] = b[j + 1]
    THEN 1 + RunLen(a, b, i + 1, j + 1, ahi, bhi)
    ELSE 0

\* the longest matching block in a[alo:ahi], b[blo:bhi]; of the longest, the
\* one starting earliest in a, and of those the one starting earliest in b
find_longest_match(a, b, alo, ahi, blo, bhi) ==
    Let({<<i, j, RunLen(a, b, i, j, ahi, bhi)>> :
            i \in alo..(ahi - 1), j \in blo..(bhi - 1)},
        LAMBDA blocks :
            IF blocks = {} THEN <<alo, blo, 0>>
            ELSE Let(Max({c[3] : c \in blocks}),
                     LAMBDA bestsize :
                         IF bestsize = 0 THEN <<alo, blo, 0>>
                         ELSE Let(Min({c[1] : c \in {d \in blocks : d[3] = bestsize}}),
                                  LAMBDA besti :
                                      <<besti,
                                        Min({c[2] : c \in {d \in blocks :
                                                d[3] = bestsize /\ d[1] = besti}}),
                                        bestsize>>)))

\* sum of the sizes of get_matching_blocks()
RECURSIVE matches(_, _, _, _, _, _)
matches(a, b, alo, ahi, blo, bhi) ==
    Let(find_longest_match(a, b, alo, ahi, blo, bhi),
        LAMBDA m :
            IF m[3] = 0 THEN 0
            ELSE m[3] + (IF alo < m[1] /\ blo < m[2]
                         THEN matches(a, b, alo, m[1], blo, m[2]) ELSE 0)
                      + (IF m[1] + m[3] < ahi /\ m[2] + m[3] < bhi
                         THEN matches(a, b, m[1] + m[3], ahi, m[2] + m[3], bhi)
                         ELSE 0))

\* mutant: the factor 2.0 forgotten
calculate_ratio_half(m, length) == IF length > 0 THEN <<m, length>> ELSE <<1, 1>>

\* _calculate_ratio: 2.0 * matches / length, and 1.0 when length is 0
calculate_ratio(m, length) == IF length > 0 THEN <<2 * m, length>> ELSE <<1, 1>>

ratio(a, b) ==
    calculate_ratio(matches(a, b, 0, Len(a), 0, Len(b)), Len(a) + Len(b))

RatioGT(r1, r2) == r1[1] * r2[2] > r2[1] * r1[2]
RatioEQ(r1, r2) == r1[1] * r2[2] = r2[1] * r1[2]
RatioOne == <<1, 1>>

(***************************************************************************)
(* get_chrome_version                                                      *)
(***************************************************************************)
XML_VERSION_KEY == <<"K", "S", "V", "e", "r", "s", "i", "o", "n">>
NoneText == <<"None">>     \* the text of an element that has none

\* mutant: the `child.tag != "key"` test left out
RECURSIVE scan_children_any_tag(_, _, _)
scan_children_any_tag(children, i, found_key) ==
    IF i > Len(children) THEN Raise("Exception")
    ELSE IF ~found_key
         THEN scan_children_any_tag(children, i + 1,
                                    children[i].text = XML_VERSION_KEY)
         ELSE Return(children[i].text)

\* the loop over the children of dict_tag, from child i on
RECURSIVE scan_children(_, _, _)
scan_children(children, i, found_key) ==
    IF i > Len(children) THEN Raise("Exception")
    ELSE LET child == children[i]
             inner_text == child.text
         IN  IF ~found_key
             THEN IF child.tag # "key"
                  THEN scan_children(children, i + 1, found_key)
                  ELSE scan_children(children, i + 1, inner_text = XML_VERSION_KEY)
             ELSE Return(inner_text)

\* next(iter(root)) raises StopIteration when the root has no child
get_chrome_version(m) ==
    IF ~m.container THEN Raise("StopIteration")
    ELSE scan_children(m.entries, 1, FALSE)

(***************************************************************************)
(* get_chromedriver_download_url                                           *)
(***************************************************************************)
NoneRatio == <<>>
NoneIndex == -1
NoUrl == [index |-> 0, platform |-> "none"]
TargetPlatform == "mac-x64"

\* mutant: >= in place of >
better_or_equal(similarity, most_similar__ratio) ==
    ~RatioGT(most_similar__ratio, similarity)

\* condition2's comparison: similarity > most_similar__ratio
better(similarity, most_similar__ratio) == RatioGT(similarity, most_similar__ratio)

\* the enumerate loop from `index` on; best is (most_similar__ratio, most_similar__index)
RECURSIVE scan_versions(_, _, _, _)
scan_versions(data, our_version, index, best) ==
    IF index >= Len(data) THEN best
    ELSE Let(ratio(data[index + 1].version, our_version),
             LAMBDA similarity :
                 LET condition1 == best.ratio = NoneRatio /\ best.index = NoneIndex
                     condition2 == (~condition1) /\ better(similarity, best.ratio)
                 IN  Let(IF condition1 \/ condition2
                         THEN [ratio |-> similarity, index |-> index]
                         ELSE best,
                         LAMBDA new_best :
                             scan_versions(data, our_version, index + 1, new_best)))

most_similar__index(data, our_version) ==
    scan_versions(data, our_version, 0,
                  [ratio |-> NoneRatio, index |-> NoneIndex]).index

\* mutant: falls back to the first entry that offers the target platform
platforms_of_any(data, index) ==
    LET has(i) == \E k \in 1..Len(data[i].downloads) :
                      data[i].downloads[k].platform = "mac-x64"
    IN  IF has(index + 1) \/ ~(\E i \in 1..Len(data) : has(i))
        THEN data[index + 1].downloads
        ELSE data[Min({i \in 1..Len(data) : has(i)})].downloads

\* most_similar["downloads"]["chromedriver"]
platforms_of(data, index) == data[index + 1].downloads

\* the whole function; val is [index, url] with index the most_similar__index
get_chromedriver_download_url(resp, our_version) ==
    IF resp.body = "html"
    THEN [err |-> "JSONDecodeError", val |-> [index |-> NoneIndex, url |-> NoUrl]]
    ELSE IF resp.body = "noversions"
    THEN [err |-> "KeyError", val |-> [index |-> NoneIndex, url |-> NoUrl]]
    ELSE Let(most_similar__index(resp.versions, our_version),
             LAMBDA index :
                 IF index = NoneIndex
                 THEN [err |-> "TypeError", val |-> [index |-> index, url |-> NoUrl]]
                 ELSE LET platforms == platforms_of(resp.versions, index)
                          hits == {k \in 1..Len(platforms) :
                                      platforms[k].platform = TargetPlatform}
                      IN  IF hits = {}
                          THEN [err |-> "StopIteration",
                                val |-> [index |-> index, url |-> NoUrl]]
                          ELSE Return([index |-> index,
                                       url |-> platforms[Min(hits)].url]))

(***************************************************************************)
(* The filesystem                                                          *)
(***************************************************************************)
Root == "project_root"     \* os.path.dirname(__file__)
Other == "other_dir"
NoneDir == "None"
Dirs == {Root, Other}

zip_name == "chromedriver.zip"
unzipped_name == "chromedriver-mac-x64"
exe_member == "chromedriver-mac-x64/chromedriver"
license_member == "chromedriver-mac-x64/LICENSE.chromedriver"
exe_name == "chromedriver"
notes_name == "notes.txt"
Members == {exe_member, license_member}
Names == {zip_name, unzipped_name, exe_name, notes_name} \cup Members

Absent == [kind |-> "absent", c |-> 0, x |-> FALSE]
DirNode == [kind |-> "dir", c |-> 0, x |-> FALSE]
File(c, x) == [kind |-> "file", c |-> c, x |-> x]
StaleContent == 9

join(d, n) == <<d, n>>
Paths == Dirs \X Names

\* mutant: the archive is written relative to the project, not to dest_dir
zip_path_fixed(dest) == join(Root, zip_name)

zip_path(dest) == join(dest, zip_name)
unzipped_dir(dest) == join(dest, unzipped_name)
chromedriver_src_path(dest) == join(dest, exe_member)
chromedriver_dest_path(dest) == join(dest, exe_name)

\* dest_dir or os.path.dirname(__file__)
dest_or_root(d) == IF d = NoneDir THEN Root ELSE d

\* ZipFile.extractall(dest): every member is written, its directory created;
\* extraction does not carry the archive's permission bits over
extractall(f, dest, c, members) ==
    [q \in Paths |->
        IF q[1] = dest /\ q[2] \in members THEN File(c, FALSE)
        ELSE IF q = unzipped_dir(dest) /\ members # {} THEN DirNode
        ELSE f[q]]

\* shutil.move(src, dst): a rename, the file keeps its mode
move(f, src, dst) == [f EXCEPT ![dst] = f[src], ![src] = Absent]

\* mutant: the archive is never deleted
remove_nothing(f, path) == f

\* os.remove(path)
remove(f, path) == [f EXCEPT ![path] = Absent]

\* shutil.rmtree(unzipped_dir)
rmtree(f, dest) ==
    [q \in Paths |->
        IF q[1] = dest /\ q[2] \in Members \cup {unzipped_name} THEN Absent
        ELSE f[q]]

\* os.chmod(path, stat.S_IRWXU)
chmod_rwxu(f, path) == [f EXCEPT ![path] = File(f[path].c, TRUE)]

\* the path amend_permission changes
amend_path == join(Root, exe_name)

(***************************************************************************)
(* Control: an exception propagates out of the function that was called;   *)
(* nothing catches it.                                                     *)
(***************************************************************************)
Procs == DOMAIN pc

\* mutant: the exception is swallowed and the next call runs
after_step_swallow(e, next) == next

\* where control is after a statement that raised e or went on to `next`
after_step(e, next) == IF e = NoErr THEN next ELSE "failed"

\* a function called on its own returns to its caller; inside download()
\* control goes on to the next call
after_call(p, next) == IF entry[p] = "download" THEN next ELSE "done"

Goto(p, e, next) ==
    /\ pc' = [pc EXCEPT ![p] = after_step(e, next)]
    /\ err' = [err EXCEPT ![p] = IF e # NoErr THEN e ELSE @]

Logged(p, call, e) ==
    IF entry[p] = "download"
    THEN [log EXCEPT ![p] = Append(@, [call |-> call, err |-> e])]
    ELSE log

\* a statement of download_chromedriver other than its last
FetchStep(p, e, next) ==
    /\ Goto(p, e, next)
    /\ log' = IF e # NoErr THEN Logged(p, "download_chromedriver", e) ELSE log

RatioVars == <<sa, sb, r_ab, r_ba>>
InputVars == <<manifest, response, served, fs0, entry, dest_dir>>

(***************************************************************************)
(* Actions                                                                 *)
(***************************************************************************)
\* download.py:210 (and 15-63)
GetChromeVersion(p) ==
    /\ pc[p] = "get_chrome_version"
    /\ \E r \in {get_chrome_version(manifest)} :
           /\ version' = [version EXCEPT ![p] = r.val]
           /\ Goto(p, r.err, after_call(p, "get_chromedriver_download_url"))
           /\ log' = Logged(p, "get_chrome_version", r.err)
    /\ UNCHANGED <<InputVars, RatioVars, fs, most_similar, url, filepath>>

\* download.py:211 (and 66-128)
GetChromedriverDownloadUrl(p) ==
    /\ pc[p] = "get_chromedriver_download_url"
    /\ \E r \in {get_chromedriver_download_url(response, version[p])} :
           /\ most_similar' = [most_similar EXCEPT ![p] =
                                 r.val.index]
           /\ url' = [url EXCEPT ![p] = IF r.err = NoErr THEN r.val.url ELSE NoUrl]
           /\ Goto(p, r.err, after_call(p, "request"))
           /\ log' = Logged(p, "get_chromedriver_download_url", r.err)
    /\ UNCHANGED <<InputVars, RatioVars, fs, version, filepath>>

\* download.py:152-153: requests.get(url, stream=True); raise_for_status()
Request(p) ==
    /\ pc[p] = "request"
    /\ FetchStep(p, IF served[p].status >= 400 THEN "HTTPError" ELSE NoErr, "open")
    /\ UNCHANGED <<InputVars, RatioVars, fs, version, most_similar, url, filepath>>

\* download.py:154: open(zip_path, "wb") creates or truncates the archive
OpenZip(p) ==
    /\ pc[p] = "open"
    /\ fs' = [fs EXCEPT ![zip_path(dest_or_root(dest_dir[p]))] = File(0, FALSE)]
    /\ FetchStep(p, NoErr, "write")
    /\ UNCHANGED <<InputVars, RatioVars, version, most_similar, url, filepath>>

\* download.py:155-157: the chunks are written through the open handle; a
\* file that was unlinked meanwhile does not come back
WriteZip(p) ==
    /\ pc[p] = "write"
    /\ LET zp == zip_path(dest_or_root(dest_dir[p]))
       IN  fs' = IF fs[zp].kind = "file" THEN [fs EXCEPT ![zp] = File(p, FALSE)]
                 ELSE fs
    /\ FetchStep(p, NoErr, "extract")
    /\ UNCHANGED <<InputVars, RatioVars, version, most_similar, url, filepath>>

\* download.py:160-161: ZipFile(zip_path, "r").extractall(dest_dir)
Extract(p) ==
    /\ pc[p] = "extract"
    /\ LET dest == dest_or_root(dest_dir[p])
           zp == zip_path(dest)
           e == IF fs[zp].kind # "file" THEN "FileNotFoundError"
                ELSE IF fs[zp].c = 0 THEN "BadZipFile"
                ELSE NoErr
       IN  /\ fs' = IF e = NoErr
                    THEN extractall(fs, dest, fs[zp].c, served[fs[zp].c].members)
                    ELSE fs
           /\ FetchStep(p, e, "move")
    /\ UNCHANGED <<InputVars, RatioVars, version, most_similar, url, filepath>>

\* download.py:166-171: shutil.move(chromedriver_src_path, chromedriver_dest_path)
Move(p) ==
    /\ pc[p] = "move"
    /\ LET dest == dest_or_root(dest_dir[p])
           src == chromedriver_src_path(dest)
           e == IF fs[src].kind # "file" THEN "FileNotFoundError" ELSE NoErr
       IN  /\ fs' = IF e = NoErr THEN move(fs, src, chromedriver_dest_path(dest))
                    ELSE fs
           /\ FetchStep(p, e, "remove")
    /\ UNCHANGED <<InputVars, RatioVars, version, most_similar, url, filepath>>

\* download.py:174: os.remove(zip_path)
RemoveZip(p) ==
    /\ pc[p] = "remove"
    /\ LET zp == zip_path(dest_or_root(dest_dir[p]))
           e == IF fs[zp].kind # "file" THEN "FileNotFoundError" ELSE NoErr
       IN  /\ fs' = IF e = NoErr THEN remove(fs, zp) ELSE fs
           /\ FetchStep(p, e, "rmtree")
    /\ UNCHANGED <<InputVars, RatioVars, version, most_similar, url, filepath>>

\* download.py:175-177: shutil.rmtree(unzipped_dir); return chromedriver_dest_path
Rmtree(p) ==
    /\ pc[p] = "rmtree"
    /\ LET dest == dest_or_root(dest_dir[p])
           e == IF fs[unzipped_dir(dest)].kind # "dir" THEN "FileNotFoundError"
                ELSE NoErr
       IN  /\ fs' = IF e = NoErr THEN rmtree(fs, dest) ELSE fs
           /\ filepath' = [filepath EXCEPT ![p] =
                             IF e = NoErr THEN chromedriver_dest_path(dest) ELSE @]
           /\ Goto(p, e, after_call(p, "amend_permission"))
           /\ log' = Logged(p, "download_chromedriver", e)
    /\ UNCHANGED <<InputVars, RatioVars, version, most_similar, url>>

\* download.py:216-218 (and 180-194)
AmendPermission(p) ==
    /\ pc[p] = "amend_permission"
    /\ LET e == IF fs[amend_path].kind = "absent" THEN "FileNotFoundError" ELSE NoErr
       IN  /\ fs' = IF e = NoErr THEN chmod_rwxu(fs, amend_path) ELSE fs
           /\ Goto(p, e, "done")
           /\ log' = Logged(p, "amend_permission", e)
    /\ UNCHANGED <<InputVars, RatioVars, version, most_similar, url, filepath>>

PipelineVars == <<manifest, response, served, fs, fs0, entry, pc, dest_dir,
                  version, most_similar, url, filepath, err, log>>

\* SequenceMatcher(None, sa, sb).ratio()
ComputeRatio ==
    /\ r_ab = NoneRatio
    /\ r_ab' = ratio(sa, sb)
    /\ UNCHANGED <<PipelineVars, sa, sb, r_ba>>

\* SequenceMatcher(None, sb, sa).ratio()
ComputeSwapped ==
    /\ r_ba = NoneRatio
    /\ r_ba' = ratio(sb, sa)
    /\ UNCHANGED <<PipelineVars, sa, sb, r_ab>>

(***************************************************************************)
(* Inputs                                                                  *)
(***************************************************************************)
V_1_2 == <<"1", ".", "2">>
V_1_1 == <<"1", ".", "1">>
V_2_1 == <<"2", ".", "1">>
V_12_1 == <<"1", "2", ".", "1">>
VersionPool == {V_1_2, V_1_1, V_2_1, V_12_1}

\* the versions of the end-to-end scenario
V_125_113 == <<"1", "2", "5", ".", "0", ".", "6", "4", "2", "2", ".", "1", "1", "3">>
V_125_3 == <<"1", "2", "5", ".", "0", ".", "6", "4", "2", "2", ".", "3">>
V_124_2 == <<"1", "2", "4", ".", "0", ".", "6", "3", "6", "7", ".", "2">>

Tags == {"key", "string"}
Texts == {XML_VERSION_KEY, V_1_2, V_2_1, NoneText}
Entries == [tag : Tags, text : Texts]
Manifests ==
    {[container |-> FALSE, entries |-> <<>>]}
    \cup {[container |-> TRUE, entries |-> es] : es \in SeqsUpTo(Entries, MaxEntries)}

KeyEntry(t) == [tag |-> "key", text |-> t]
StringEntry(t) == [tag |-> "string", text |-> t]
PipelineManifests ==
    { [container |-> FALSE, entries |-> <<>>],
      [container |-> TRUE, entries |-> <<>>],
      [container |-> TRUE,
       entries |-> <<KeyEntry(XML_VERSION_KEY), StringEntry(V_125_113)>>],
      [container |-> TRUE,
       entries |-> <<StringEntry(XML_VERSION_KEY), KeyEntry(V_124_2),
                     KeyEntry(XML_VERSION_KEY), StringEntry(V_125_113)>>] }

PlatformLists == {<<"linux64">>, <<"linux64", "mac-x64">>}

\* the catalog whose i-th entry has version vs[i] and the platforms ps[i];
\* the url of a download names the entry and the platform it belongs to
MkCatalog(vs, ps) ==
    [i \in 1..Len(vs) |->
        [version |-> vs[i],
         downloads |-> [k \in 1..Len(ps[i]) |->
                          [platform |-> ps[i][k],
                           url |-> [index |-> i, platform |-> ps[i][k]]]]]]

CatalogsOver(pool, n) ==
    UNION {{MkCatalog(vs, ps) : vs \in [1..k -> pool], ps \in [1..k -> PlatformLists]}
           : k \in 0..n}

Catalogs == CatalogsOver(VersionPool, MaxCat)
PipelineCatalogs ==
    {c \in CatalogsOver({V_125_3, V_124_2}, 2) :
        Len(c) = 2 => c[1].version # c[2].version}

ResponsesOver(statuses, catalogs) ==
    [status : statuses, body : {"html", "noversions"}, versions : {<<>>}]
    \cup [status : statuses, body : {"catalog"}, versions : catalogs]

Archives ==
    {[status |-> 404, members |-> Members]}
    \cup [status : {200}, members : SUBSET Members]
FullArchive == [status |-> 200, members |-> Members]

DirStates == {"empty", "stale", "notes"}
MkFs(k) ==
    [q \in Paths |->
        IF k[q[1]] = "stale" /\ q[2] = exe_name THEN File(StaleContent, TRUE)
        ELSE IF k[q[1]] = "notes" /\ q[2] = notes_name THEN File(StaleContent, FALSE)
        ELSE Absent]
EmptyFs == MkFs([d \in Dirs |-> "empty"])

One == {1}
Two == {1, 2}

IdleRatio == sa = <<>> /\ sb = <<>> /\ r_ab = NoneRatio /\ r_ba = NoneRatio

Locals(procs, start) ==
    /\ pc = [p \in procs |-> start]
    /\ most_similar = [p \in procs |-> NoneIndex]
    /\ filepath = [p \in procs |-> join(NoneDir, exe_name)]
    /\ err = [p \in procs |-> NoErr]
    /\ log = [p \in procs |-> <<>>]

(***************************************************************************)
(* Spec: one call of download(dest_dir)                                    *)
(***************************************************************************)
Init ==
    /\ manifest \in PipelineManifests
    /\ response \in ResponsesOver({200, 500}, PipelineCatalogs)
    /\ served \in [One -> Archives]
    /\ fs \in {MkFs(k) : k \in [Dirs -> DirStates]}
    /\ fs0 = fs
    /\ entry = [p \in One |-> "download"]
    /\ dest_dir \in [One -> {NoneDir, Root, Other}]
    /\ version = [p \in One |-> NoVal]
    /\ url = [p \in One |-> NoUrl]
    /\ Locals(One, "get_chrome_version")
    /\ IdleRatio

Next ==
    \/ \E p \in Procs : GetChromeVersion(p)
    \/ \E p \in Procs : GetChromedriverDownloadUrl(p)
    \/ \E p \in Procs : Request(p)
    \/ \E p \in Procs : OpenZip(p)
    \/ \E p \in Procs : WriteZip(p)
    \/ \E p \in Procs : Extract(p)
    \/ \E p \in Procs : Move(p)
    \/ \E p \in Procs : RemoveZip(p)
    \/ \E p \in Procs : Rmtree(p)
    \/ \E p \in Procs : AmendPermission(p)

Spec == Init /\ [][Next]_vars

(***************************************************************************)
(* SpecProbe: get_chrome_version() over every manifest of the bound        *)
(***************************************************************************)
InitProbe ==
    /\ manifest \in Manifests
    /\ response = [status |-> 200, body |-> "catalog", versions |-> <<>>]
    /\ served = [p \in One |-> FullArchive]
    /\ fs = EmptyFs
    /\ fs0 = fs
    /\ entry = [p \in One |-> "get_chrome_version"]
    /\ dest_dir = [p \in One |-> NoneDir]
    /\ version = [p \in One |-> NoVal]
    /\ url = [p \in One |-> NoUrl]
    /\ Locals(One, "get_chrome_version")
    /\ IdleRatio

NextProbe == \E p \in Procs : GetChromeVersion(p)

SpecProbe == InitProbe /\ [][NextProbe]_vars

(***************************************************************************)
(* SpecResolve: get_chromedriver_download_url(our_version)                 *)
(***************************************************************************)
InitResolve ==
    /\ manifest = [container |-> FALSE, entries |-> <<>>]
    /\ response \in ResponsesOver({200}, Catalogs)
    /\ served = [p \in One |-> FullArchive]
    /\ fs = EmptyFs
    /\ fs0 = fs
    /\ entry = [p \in One |-> "get_chromedriver_download_url"]
    /\ dest_dir = [p \in One |-> NoneDir]
    /\ version \in [One -> VersionPool]
    /\ url = [p \in One |-> NoUrl]
    /\ Locals(One, "get_chromedriver_download_url")
    /\ IdleRatio

NextResolve == \E p \in Procs : GetChromedriverDownloadUrl(p)

SpecResolve == InitResolve /\ [][NextResolve]_vars

(***************************************************************************)
(* SpecRatio: the similarity ratio of two strings, in both orders          *)
(***************************************************************************)
InitRatio ==
    /\ manifest = [container |-> FALSE, entries |-> <<>>]
    /\ response = [status |-> 200, body |-> "catalog", versions |-> <<>>]
    /\ served = [p \in One |-> FullArchive]
    /\ fs = EmptyFs
    /\ fs0 = fs
    /\ entry = [p \in One |-> "ratio"]
    /\ dest_dir = [p \in One |-> NoneDir]
    /\ version = [p \in One |-> NoVal]
    /\ url = [p \in One |-> NoUrl]
    /\ Locals(One, "done")
    /\ sa \in Strings
    /\ sb \in Strings
    /\ r_ab = NoneRatio
    /\ r_ba = NoneRatio

NextRatio == ComputeRatio \/ ComputeSwapped

SpecRatio == InitRatio /\ [][NextRatio]_vars

(***************************************************************************)
(* SpecConc: two calls of download_chromedriver(url, dest_dir) at once,    *)
(* each served its own well-formed archive                                 *)
(***************************************************************************)
InitConc ==
    /\ manifest = [container |-> FALSE, entries |-> <<>>]
    /\ response = [status |-> 200, body |-> "catalog", versions |-> <<>>]
    /\ served = [p \in Two |-> FullArchive]
    /\ fs = EmptyFs
    /\ fs0 = fs
    /\ entry = [p \in Two |-> "download_chromedriver"]
    /\ dest_dir \in [Two -> Dirs]
    /\ version = [p \in Two |-> NoVal]
    /\ url = [p \in Two |-> [index |-> p, platform |-> TargetPlatform]]
    /\ Locals(Two, "request")
    /\ IdleRatio

NextConc ==
    \/ \E p \in Procs : Request(p)
    \/ \E p \in Procs : OpenZip(p)
    \/ \E p \in Procs : WriteZip(p)
    \/ \E p \in Procs : Extract(p)
    \/ \E p \in Procs : Move(p)
    \/ \E p \in Procs : RemoveZip(p)
    \/ \E p \in Procs : Rmtree(p)

SpecConc == InitConc /\ [][NextConc]_vars

TypeOK ==
    /\ \A p \in Procs : pc[p] \in {"get_chrome_version", "get_chromedriver_download_url",
                                     "request", "open", "write", "extract", "move",
                                     "remove", "rmtree", "amend_permission", "done",
                                     "failed"}
    /\ \A q \in Paths : fs[q].kind \in {"absent", "dir", "file"}

(***************************************************************************)
(* Properties                                                              *)
(***************************************************************************)
Finished(p) == pc[p] \in {"done", "failed"}
Dest(p) == dest_or_root(dest_dir[p])
Present(d) == {n \in Names : fs[join(d, n)].kind # "absent"}

\* C1: whenever download(dest_dir) returns, the file at the returned path
\* <dest_dir>/chromedriver has the owner-execute bit set.
C1_ReturnedFileIsExecutable ==
    \A p \in Procs :
        (entry[p] = "download" /\ pc[p] = "done")
            => /\ filepath[p] = chromedriver_dest_path(Dest(p))
               /\ fs[filepath[p]].kind = "file"
               /\ fs[filepath[p]].x

\* the similarity of the k-th catalog entry to the version asked for
Sim(p, k) == ratio(response.versions[k].version, version[p])
\* the earliest entry no other entry is more similar than
IsWinner(p, i) ==
    /\ i \in 1..Len(response.versions)
    /\ \A k \in 1..Len(response.versions) : ~RatioGT(Sim(p, k), Sim(p, i))
    /\ \A k \in 1..(i - 1) : RatioGT(Sim(p, i), Sim(p, k))
Resolved(p) ==
    /\ entry[p] = "get_chromedriver_download_url"
    /\ Finished(p)
    /\ response.body = "catalog"

\* C2: on a non-empty catalog the resolver selects the entry with the highest
\* similarity ratio to the input version, and of the entries sharing the top
\* ratio the earliest one.
C2_SelectsEarliestMostSimilar ==
    \A p \in Procs :
        (Resolved(p) /\ Len(response.versions) > 0)
            => IsWinner(p, most_similar[p] + 1)

\* C2 witness: the top ratio is shared by the second and a later entry, the
\* first entry is less similar, and the second entry was selected.
C2_Witness ==
    \E p \in Procs :
        /\ Resolved(p)
        /\ Len(response.versions) >= 3
        /\ most_similar[p] = 1
        /\ RatioEQ(Sim(p, 3), Sim(p, 2))
        /\ response.versions[3].version # response.versions[2].version

FetchReturned(p) ==
    \E i \in 1..Len(log[p]) :
        log[p][i] = [call |-> "download_chromedriver", err |-> NoErr]
DestWasEmpty(p) == \A n \in Names : fs0[join(Dest(p), n)] = Absent

\* C3: after download_chromedriver returned on a destination directory that
\* was empty before, the directory holds the relocated executable and nothing
\* else: no archive, no extracted subdirectory, none of its members.
C3_OnlyTheExecutableRemains ==
    \A p \in Procs :
        (FetchReturned(p) /\ DestWasEmpty(p))
            => /\ Present(Dest(p)) = {exe_name}
               /\ fs[chromedriver_dest_path(Dest(p))].kind = "file"
               /\ fs[chromedriver_dest_path(Dest(p))].c = p

\* C3 witness: the fetch returned on an empty directory from an archive that
\* also carried the license file.
C3_Witness ==
    \E p \in Procs :
        /\ FetchReturned(p)
        /\ DestWasEmpty(p)
        /\ license_member \in served[p].members
        /\ Dest(p) = Other

Probed(p) == entry[p] = "get_chrome_version" /\ Finished(p)
IsVersionKey(e) == e.tag = "key" /\ e.text = XML_VERSION_KEY
KeyPositions == {i \in 1..Len(manifest.entries) : IsVersionKey(manifest.entries[i])}
HasKeyWithValue ==
    /\ manifest.container
    /\ \E i \in KeyPositions : i < Len(manifest.entries)

\* C4: when the container holds a <key> entry with text KSVersion followed by
\* another entry, get_chrome_version returns the text of the entry that
\* follows the first such key.
C4_ReturnsValueAfterFirstKey ==
    \A p \in Procs :
        (Probed(p) /\ HasKeyWithValue)
            => /\ pc[p] = "done"
               /\ err[p] = NoErr
               /\ version[p] = manifest.entries[Min(KeyPositions) + 1].text

\* C4 witness: the key comes after a <string> entry that carries the text
\* KSVersion, and the value after the key was returned.
C4_Witness ==
    \E p \in Procs :
        /\ Probed(p)
        /\ HasKeyWithValue
        /\ Min(KeyPositions) = 2
        /\ manifest.entries[1] = [tag |-> "string", text |-> XML_VERSION_KEY]
        /\ version[p] = V_1_2

\* C5: on a manifest without the version key (no container, an empty
\* container, KSVersion only in non-key entries) get_chrome_version fails
\* with its "version not found" error.
C5_MissingKeyRaisesNotFound ==
    \A p \in Procs :
        (Probed(p) /\ (~manifest.container \/ KeyPositions = {}))
            => /\ pc[p] = "failed"
               /\ err[p] = "Exception"

Order == <<"get_chrome_version", "get_chromedriver_download_url",
           "download_chromedriver", "amend_permission">>
StepOf(l) ==
    CASE l = "get_chrome_version" -> 1
      [] l = "get_chromedriver_download_url" -> 2
      [] l \in {"request", "open", "write", "extract", "move", "remove", "rmtree"} -> 3
      [] l = "amend_permission" -> 4
      [] OTHER -> 0
InOrder(p) ==
    /\ Len(log[p]) <= Len(Order)
    /\ \A i \in 1..Len(log[p]) :
          /\ log[p][i].call = Order[i]
          /\ (log[p][i].err # NoErr => i = Len(log[p]))
    /\ (StepOf(pc[p]) > 0
          => /\ Len(log[p]) = StepOf(pc[p]) - 1
             /\ \A i \in 1..Len(log[p]) : log[p][i].err = NoErr)
    /\ (pc[p] = "failed"
          => /\ Len(log[p]) > 0
             /\ log[p][Len(log[p])].err = err[p]
             /\ err[p] # NoErr)
    /\ (pc[p] = "done"
          => /\ Len(log[p]) = Len(Order)
             /\ err[p] = NoErr
             /\ \A i \in 1..Len(log[p]) : log[p][i].err = NoErr)
NothingAfterFailure(p) ==
    pc[p] = "failed" => (pc'[p] = pc[p] /\ log'[p] = log[p] /\ fs' = fs /\ err'[p] = err[p])

\* C6: download() calls probe, resolve, fetch, fix in that order, each only
\* after the one before succeeded; after a failure no later call runs, none
\* is retried, and the failure is what the caller gets.
C6_StrictSequence ==
    /\ [](\A p \in Procs : entry[p] = "download" => InOrder(p))
    /\ [][\A p \in Procs : NothingAfterFailure(p)]_vars

\* C6 witness: the fetch failed after probe and resolve succeeded, and the
\* pipeline stopped there.
C6_Witness ==
    \E p \in Procs :
        /\ entry[p] = "download"
        /\ pc[p] = "failed"
        /\ Len(log[p]) = 3
        /\ err[p] = "HTTPError"

\* C7: when the catalog fetch answers with HTTP status 500 the pipeline
\* aborts in the resolve step with the HTTP error and no file was written.
C7_CatalogFailureAborts ==
    \A p \in Procs :
        (entry[p] = "download" /\ response.status = 500 /\ Len(log[p]) >= 2)
            => /\ pc[p] = "failed"
               /\ log[p][2].err = "HTTPError"
               /\ fs = fs0

HasTarget(e) ==
    \E k \in 1..Len(e.downloads) : e.downloads[k].platform = TargetPlatform
TargetUrl(e) ==
    e.downloads[Min({k \in 1..Len(e.downloads) :
                        e.downloads[k].platform = TargetPlatform})].url
NotFound(p) == pc[p] = "failed" /\ err[p] = "StopIteration"
WinnerRule(p) ==
    \A i \in 1..Len(response.versions) :
        IsWinner(p, i)
            => /\ (~HasTarget(response.versions[i]) => NotFound(p))
               /\ (HasTarget(response.versions[i])
                     => pc[p] = "done" /\ url[p] = TargetUrl(response.versions[i]))

\* C8 as stated: the target platform is looked up in the winning entry only;
\* the call fails with the not-found error when that entry lacks it, hence
\* also whenever no entry of the catalog has it; a returned URL is the
\* winning entry's.
C8_Original ==
    \A p \in Procs :
        Resolved(p)
            => /\ WinnerRule(p)
               /\ ((\A i \in 1..Len(response.versions) :
                       ~HasTarget(response.versions[i])) => NotFound(p))

\* C8 amended: the same for every non-empty catalog (an empty catalog has no
\* winning entry and fails with a TypeError instead).
C8_Amended ==
    \A p \in Procs :
        (Resolved(p) /\ Len(response.versions) > 0)
            => /\ \E i \in 1..Len(response.versions) : IsWinner(p, i)
               /\ WinnerRule(p)
               /\ ((\A i \in 1..Len(response.versions) :
                       ~HasTarget(response.versions[i])) => NotFound(p))

\* C8 witness: the winning entry lacks the target platform while a less
\* similar entry offers it, and the call failed with the not-found error.
C8_Witness ==
    \E p \in Procs :
        /\ Resolved(p)
        /\ NotFound(p)
        /\ \E i, j \in 1..Len(response.versions) :
              /\ IsWinner(p, i)
              /\ ~HasTarget(response.versions[i])
              /\ HasTarget(response.versions[j])

RatioOfSelf ==
    /\ (sa = sb /\ r_ab # NoneRatio => RatioEQ(r_ab, RatioOne))
    /\ (sa = sb /\ r_ba # NoneRatio => RatioEQ(r_ba, RatioOne))

\* C9 as stated: the ratio is symmetric, ratio(A,B) = ratio(B,A), and
\* ratio(A,A) = 1.0.
C9_Original ==
    /\ (r_ab # NoneRatio /\ r_ba # NoneRatio => RatioEQ(r_ab, r_ba))
    /\ RatioOfSelf

\* C9 amended: ratio(A,A) = 1.0 for every string A; nothing is claimed about
\* ratio(A,B) against ratio(B,A).
C9_Amended == RatioOfSelf

\* C9 witness: the ratio of a string of two or more characters to itself
\* has been computed.
C9_Witness == sa = sb /\ Len(sa) >= 2 /\ r_ab # NoneRatio /\ r_ba # NoneRatio

SameDest == \A p, q \in Procs : Dest(p) = Dest(q)
DistinctDest == \A p, q \in Procs : p # q => Dest(p) # Dest(q)

\* C10: two concurrent calls of download_chromedriver with distinct
\* destination directories both succeed, each ending with the executable it
\* downloaded (while calls sharing a directory can corrupt one another: the
\* witness).
C10_DistinctDirsDoNotInterfere ==
    (entry = [p \in Two |-> "download_chromedriver"] /\ DistinctDest)
        => \A p \in Procs :
              /\ pc[p] # "failed"
              /\ err[p] = NoErr
              /\ (pc[p] = "done"
                    => /\ filepath[p] = chromedriver_dest_path(Dest(p))
                       /\ fs[filepath[p]] = File(p, FALSE)
                       /\ Present(Dest(p)) = {exe_name})

\* C10 witness: with a shared directory one call returned with the
\* executable the other call downloaded, and the other call failed.
C10_Witness ==
    /\ entry = [p \in Two |-> "download_chromedriver"]
    /\ SameDest
    /\ \E p, q \in Procs :
          /\ p # q
          /\ pc[p] = "done"
          /\ fs[filepath[p]] = File(q, FALSE)
          /\ pc[q] = "failed"

====
